---- MODULE Spec2Model ----
(***************************************************************************)
(* A model of employee_manager.py: a menu-driven roster of employee        *)
(* records kept in a list in memory and written to a JSON file after each  *)
(* mutation.                                                               *)
(*                                                                         *)
(* A Python str is a sequence of one-character strings, so that strip(),   *)
(* lower(), "in" and int() are computed rather than assumed.  A dict is a  *)
(* function from key names to values; a key a dict lacks is outside its    *)
(* DOMAIN.  The text of the data file is a sequence of JSON tokens (the    *)
(* whitespace json.dump puts between tokens carries no information and is  *)
(* left out); a token is itself a sequence of characters.                  *)
(***************************************************************************)
EXTENDS Integers, Sequences, FiniteSets, TLC

(* ------------------------------ bounds -------------------------------- *)

\* The Add menu entry is offered only while the list holds fewer records.
MaxEmp == 2
\* ... and only while the id it would assign does not exceed MaxId.
MaxId == 3

(* --------------------------- str operations --------------------------- *)

Space == " "

RECURSIVE LStrip(_)
\* str.lstrip(): drop leading whitespace.
LStrip(s) ==
    IF s # <<>> /\ Head(s) = Space THEN LStrip(Tail(s)) ELSE s

RECURSIVE RStrip(_)
\* str.rstrip(): drop trailing whitespace.
RStrip(s) ==
    IF s # <<>> /\ s[Len(s)] = Space THEN RStrip(SubSeq(s, 1, Len(s) - 1)) ELSE s

\* str.strip()
Strip(s) == RStrip(LStrip(s))

\* str.lower() on one character (the letters the inputs below use).
LowerChar(c) ==
    CASE c = "A" -> "a"
      [] c = "B" -> "b"
      [] c = "L" -> "l"
      [] c = "O" -> "o"
      [] OTHER -> c

\* str.lower()
Lower(s) == [i \in 1..Len(s) |-> LowerChar(s[i])]

\* needle in hay (substring test); the empty needle is in every string.
Contains(hay, needle) ==
    \E i \in 0..(Len(hay) - Len(needle)) :
        SubSeq(hay, i + 1, i + Len(needle)) = needle

Digits == <<"0", "1", "2", "3", "4", "5", "6", "7", "8", "9">>

IsDigit(c) == \E d \in 1..10 : Digits[d] = c

DigitVal(c) == (CHOOSE d \in 1..10 : Digits[d] = c) - 1

RECURSIVE DigitsToNat(_)
\* The value of a non-empty sequence of decimal digits.
DigitsToNat(s) ==
    IF Len(s) = 1 THEN DigitVal(s[1])
    ELSE 10 * DigitsToNat(SubSeq(s, 1, Len(s) - 1)) + DigitVal(s[Len(s)])

AllDigits(s) == s # <<>> /\ \A i \in 1..Len(s) : IsDigit(s[i])

RECURSIVE NatToDigits(_)
\* The decimal digits of a natural number, as str(n) and json.dump write it.
NatToDigits(n) ==
    IF n < 10 THEN <<Digits[n + 1]>>
    ELSE Append(NatToDigits(n \div 10), Digits[(n % 10) + 1])

IntToStr(n) == IF n < 0 THEN <<"-">> \o NatToDigits(0 - n) ELSE NatToDigits(n)

\* int(s): surrounding whitespace is ignored, one sign is allowed, the rest
\* must be decimal digits; anything else raises ValueError (ok = FALSE).
PyInt(s) ==
    LET t == Strip(s)
        signed == t # <<>> /\ t[1] \in {"+", "-"}
        body == IF signed THEN Tail(t) ELSE t
    IN  IF AllDigits(body)
        THEN [ok |-> TRUE,
              val |-> IF signed /\ t[1] = "-" THEN 0 - DigitsToNat(body)
                      ELSE DigitsToNat(body)]
        ELSE [ok |-> FALSE, val |-> 0]

(* ------------------------------- dicts -------------------------------- *)

\* The four keys add_employee gives a record, in the order it gives them.
Keys == <<"id", "name", "age", "department">>

KeySet == {Keys[i] : i \in 1..Len(Keys)}

\* The characters of a key, as they stand in the file between the quotes.
KeyChars(k) ==
    CASE k = "id" -> <<"i", "d">>
      [] k = "name" -> <<"n", "a", "m", "e">>
      [] k = "age" -> <<"a", "g", "e">>
      [] k = "department" -> <<"d", "e", "p", "a", "r", "t", "m", "e", "n", "t">>

\* Keys whose values are ints; the values of the other keys are strs.
IntKeys == {"id", "age"}

EmptyDict == [k \in {} |-> 0]

\* d[k] = v
DictSet(d, k, v) == [x \in DOMAIN d \cup {k} |-> IF x = k THEN v ELSE d[x]]

\* dict.get(k, default)
Get(d, k, default) == IF k \in DOMAIN d THEN d[k] ELSE default

(* -------------------------------- JSON -------------------------------- *)

Quote == "'"

LBracket == <<"[">>
RBracket == <<"]">>
LBrace == <<"{">>
RBrace == <<"}">>
Colon == <<":">>
Comma == <<",">>

\* A string token: the opening quote, then the characters of the string.
StrTok(s) == <<Quote>> \o s

IsStrTok(t) == t # <<>> /\ t[1] = Quote

\* A number token, as JSON admits it: -?(0|[1-9][0-9]*).
IsNumTok(t) ==
    LET body == IF t # <<>> /\ t[1] = "-" THEN Tail(t) ELSE t
    IN  AllDigits(body) /\ (Len(body) = 1 \/ body[1] # "0")

NumTokVal(t) == IF t[1] = "-" THEN 0 - DigitsToNat(Tail(t)) ELSE DigitsToNat(t)

IsLiteralTok(t) == t \in {<<"n", "u", "l", "l">>, <<"t", "r", "u", "e">>}

IsScalarTok(t) == IsStrTok(t) \/ IsNumTok(t) \/ IsLiteralTok(t)

RECURSIVE DumpMembers(_, _)
\* The members of one dict from key number i on, comma-separated.
DumpMembers(e, i) ==
    IF i > Len(Keys) THEN <<>>
    ELSE IF Keys[i] \notin DOMAIN e THEN DumpMembers(e, i + 1)
    ELSE LET k == Keys[i]
             v == IF k \in IntKeys THEN IntToStr(e[k]) ELSE StrTok(e[k])
             rest == DumpMembers(e, i + 1)
         IN  <<StrTok(KeyChars(k)), Colon, v>>
             \o (IF rest = <<>> THEN <<>> ELSE <<Comma>> \o rest)

DumpDict(e) == <<LBrace>> \o DumpMembers(e, 1) \o <<RBrace>>

RECURSIVE DumpItemsNoComma(_)
\* A variant of DumpItems that leaves out the commas between the dicts.
DumpItemsNoComma(employees) ==
    IF employees = <<>> THEN <<>>
    ELSE DumpDict(employees[1]) \o DumpItemsNoComma(Tail(employees))

RECURSIVE DumpItems(_)
\* The dicts of the list, comma-separated.
DumpItems(employees) ==
    IF employees = <<>> THEN <<>>
    ELSE IF Len(employees) = 1 THEN DumpDict(employees[1])
    ELSE DumpDict(employees[1]) \o <<Comma>> \o DumpItems(Tail(employees))

\* json.dump(employees, f, indent=2, ensure_ascii=False): the text written.
JsonDump(employees) == <<LBracket>> \o DumpItems(employees) \o <<RBracket>>

\* The key a string token names (keys other than the four are not modelled).
KeyOfTok(t) ==
    IF \E k \in KeySet : StrTok(KeyChars(k)) = t
    THEN CHOOSE k \in KeySet : StrTok(KeyChars(k)) = t
    ELSE "?"

\* The Python value of a scalar token: an int for a number, a str for a string.
ScalarVal(t) == IF IsNumTok(t) THEN NumTokVal(t) ELSE Tail(t)

RECURSIVE ParseMembers(_, _, _)
\* Parses  key : value (, key : value)* }  from position i into dict d, the
\* values being numbers and strings.  Yields the dict and the position after
\* the closing brace, or ok = FALSE.  A repeated key keeps its last value.
ParseMembers(toks, i, d) ==
    IF i + 3 > Len(toks) \/ ~IsStrTok(toks[i]) \/ toks[i + 1] # Colon
       \/ ~(IsStrTok(toks[i + 2]) \/ IsNumTok(toks[i + 2]))
    THEN [ok |-> FALSE, val |-> EmptyDict, next |-> i]
    ELSE LET d2 == DictSet(d, KeyOfTok(toks[i]), ScalarVal(toks[i + 2]))
         IN  IF toks[i + 3] = RBrace THEN [ok |-> TRUE, val |-> d2, next |-> i + 4]
             ELSE IF toks[i + 3] = Comma THEN ParseMembers(toks, i + 4, d2)
             ELSE [ok |-> FALSE, val |-> EmptyDict, next |-> i]

\* Parses an object whose opening brace is at position i.
ParseObject(toks, i) ==
    IF i + 1 > Len(toks) \/ toks[i] # LBrace
    THEN [ok |-> FALSE, val |-> EmptyDict, next |-> i]
    ELSE IF toks[i + 1] = RBrace THEN [ok |-> TRUE, val |-> EmptyDict, next |-> i + 2]
    ELSE ParseMembers(toks, i + 1, EmptyDict)

RECURSIVE ParseItems(_, _, _)
\* Parses  object (, object)* ]  from position i, appending to acc; the
\* closing bracket must be the last token of the text.
ParseItems(toks, i, acc) ==
    LET o == ParseObject(toks, i)
    IN  IF ~o.ok \/ o.next > Len(toks) THEN [ok |-> FALSE, val |-> <<>>]
        ELSE IF toks[o.next] = RBracket
        THEN [ok |-> o.next = Len(toks), val |-> Append(acc, o.val)]
        ELSE IF toks[o.next] = Comma THEN ParseItems(toks, o.next + 1, Append(acc, o.val))
        ELSE [ok |-> FALSE, val |-> <<>>]

\* json.load(f) on a decoded text.  ok = FALSE is JSONDecodeError; isList
\* tells a top-level array from a top-level object or scalar.  Arrays are
\* parsed when their elements are objects with scalar members.
JsonLoad(toks) ==
    IF toks = <<>> THEN [ok |-> FALSE, isList |-> FALSE, val |-> <<>>]
    ELSE IF Len(toks) = 1
    THEN [ok |-> IsScalarTok(toks[1]), isList |-> FALSE, val |-> <<>>]
    ELSE IF toks[1] = LBrace
    THEN LET o == ParseObject(toks, 1)
         IN  [ok |-> o.ok /\ o.next = Len(toks) + 1, isList |-> FALSE, val |-> <<>>]
    ELSE IF toks[1] = LBracket
    THEN IF toks = <<LBracket, RBracket>>
         THEN [ok |-> TRUE, isList |-> TRUE, val |-> <<>>]
         ELSE LET r == ParseItems(toks, 2, <<>>)
              IN  [ok |-> r.ok, isList |-> r.ok, val |-> IF r.ok THEN r.val ELSE <<>>]
    ELSE [ok |-> FALSE, isList |-> FALSE, val |-> <<>>]

(* ------------------------- the program's state ------------------------ *)

VARIABLES
    pc,         \* where the process is: the prompt it waits at, or how it ended
    employees,  \* main's list of records
    file,       \* employees.json: [kind, text]
    name,       \* add_employee's local name, once validated
    age,        \* add_employee's local age, once validated
    sid_int,    \* prompt_delete's local sid_int, once parsed
    out,        \* the last line a handler printed: [msg, num]
    exitCode,   \* the process's exit status; -1 while it runs
    assigned    \* history: the ids "Added employee ... (id=N)" has reported

vars == <<pc, employees, file, name, age, sid_int, out, exitCode, assigned>>

MinAge == 15
MaxAge == 100

General == <<"G", "e", "n", "e", "r", "a", "l">>

Msg(m) == [msg |-> m, num |-> 0]

NoFile == [kind |-> "absent", text |-> <<>>]
\* A file whose bytes are not UTF-8.
BytesFile == [kind |-> "bytes", text |-> <<>>]
TextFile(toks) == [kind |-> "text", text |-> toks]

(* ------------------------------ functions ----------------------------- *)

\* load_data: raised = TRUE when an exception leaves the function.  Reading
\* bytes that are not UTF-8 raises UnicodeDecodeError, which is a ValueError
\* but neither a JSONDecodeError nor an IOError.
load_data(f) ==
    IF f.kind = "absent" THEN [raised |-> FALSE, val |-> <<>>]
    ELSE IF f.kind = "bytes" THEN [raised |-> TRUE, val |-> <<>>]
    ELSE LET data == JsonLoad(f.text)
         IN  IF data.ok /\ data.isList THEN [raised |-> FALSE, val |-> data.val]
             ELSE [raised |-> FALSE, val |-> <<>>]

\* save_data: what may become of the file.  open(filename, "w") may fail and
\* leave the file as it was; once opened the file is empty, and a failing
\* write leaves it so; otherwise it holds the dumped text.
save_data(emps, f) ==
    {[ok |-> TRUE, file |-> TextFile(JsonDump(emps))],
     [ok |-> FALSE, file |-> f],
     [ok |-> FALSE, file |-> TextFile(<<>>)]}

validate_name(n) == Len(Strip(n)) >= 1

\* A variant of validate_age whose range test is exclusive at the top and
\* one too low at the bottom.
validate_age_shifted(age_str) ==
    LET a == PyInt(age_str)
    IN  IF a.ok /\ MinAge - 1 <= a.val /\ a.val < MaxAge
        THEN [ok |-> TRUE, val |-> a.val]
        ELSE [ok |-> FALSE, val |-> 0]

\* validate_age: ok = FALSE stands for None.
validate_age(age_str) ==
    LET a == PyInt(age_str)
    IN  IF a.ok /\ MinAge <= a.val /\ a.val <= MaxAge
        THEN [ok |-> TRUE, val |-> a.val]
        ELSE [ok |-> FALSE, val |-> 0]

Max(S) == CHOOSE m \in S : \A x \in S : x <= m

\* A variant of NextId that counts the records instead of taking their
\* largest id.
NextIdByCount(emps) == 1 + Len(emps)

\* 1 + max((e.get("id", 0) for e in employees), default=0)
NextId(emps) ==
    1 + (IF emps = <<>> THEN 0
         ELSE Max({Get(emps[i], "id", 0) : i \in 1..Len(emps)}))

NewEmployee(id, n, a, dept) ==
    [id |-> id, name |-> n, age |-> a, department |-> dept]

\* A variant of AppendEmployee that puts the new record first.
PrependEmployee(emps, emp) == <<emp>> \o emps

\* employees.append(emp)
AppendEmployee(emps, emp) == Append(emps, emp)

\* find_by_name: the records whose lowered name holds the lowered, stripped
\* query, in list order.
find_by_name(emps, name_query) ==
    LET q == Lower(Strip(name_query))
    IN  SelectSeq(emps, LAMBDA e : Contains(Lower(Get(e, "name", <<>>)), q))

\* e.get("id") == id_to_delete
IdIs(e, id) == "id" \in DOMAIN e /\ e["id"] = id

RemoveAt(s, i) == SubSeq(s, 1, i - 1) \o SubSeq(s, i + 1, Len(s))

\* A variant of delete_by_id that removes the record after the one found.
delete_by_id_next(emps, id_to_delete) ==
    IF \E i \in 1..Len(emps) : IdIs(emps[i], id_to_delete)
    THEN LET i == CHOOSE j \in 1..Len(emps) : IdIs(emps[j], id_to_delete)
         IN  [found |-> TRUE, emps |-> RemoveAt(emps, i + 1)]
    ELSE [found |-> FALSE, emps |-> emps]

\* delete_by_id, before it saves: the first record with the id is removed.
delete_by_id(emps, id_to_delete) ==
    IF \E i \in 1..Len(emps) : IdIs(emps[i], id_to_delete)
    THEN LET i == CHOOSE j \in 1..Len(emps) :
                      /\ IdIs(emps[j], id_to_delete)
                      /\ \A k \in 1..(j - 1) : ~IdIs(emps[k], id_to_delete)
         IN  [found |-> TRUE, emps |-> RemoveAt(emps, i)]
    ELSE [found |-> FALSE, emps |-> emps]

\* view_all's rows: a key a record lacks is shown as the empty string.
ViewRows(emps) ==
    [i \in 1..Len(emps) |->
        <<Get(emps[i], "id", <<>>), Get(emps[i], "name", <<>>),
          Get(emps[i], "age", <<>>), Get(emps[i], "department", <<>>)>>]

\* prompt_search's loop subscripts e['id'], e['name'], e['age'] and
\* e['department'] of every result: KeyError when a result lacks one.
PrintsResult(e) == KeySet \subseteq DOMAIN e

(* -------------------------------- inputs ------------------------------ *)

ChoiceInputs ==
    {<<"1">>, <<" ", "2">>, <<"3">>, <<"4", " ">>, <<"5">>, <<"9">>, <<>>}

NameInputs == {<<>>, <<" ">>, <<" ", "A", "l", " ">>}

AgeInputs ==
    {<<"1", "4">>, <<"1", "5">>, <<"1", "0", "0">>, <<"1", "0", "1">>,
     <<"-", "2", "0">>, <<"a", "b", "c">>, <<>>}

DeptInputs == {<<>>, <<" ">>, <<" ", "E", "n", "g">>}

QueryInputs == {<<>>, <<"a", "l">>, <<" ", "B", "O", " ">>, <<"z">>}

IdInputs == {IntToStr(n) : n \in 0..MaxId} \cup {<<"x">>, <<>>}

Al == <<"A", "l">>
Bob == <<"b", "o", "b">>
Eng == <<"E", "n", "g">>

\* Files the program may find at start whose records, if any, have all four
\* keys and pairwise distinct ids.
WellFormedFiles ==
    {NoFile, BytesFile,
     TextFile(<<<<"n", "o", "t">>, <<"j", "s", "o", "n">>>>),
     TextFile(<<StrTok(<<"n", "o", "t", " ", "j", "s", "o", "n">>)>>),
     TextFile(<<LBrace, StrTok(KeyChars("id")), Colon, <<"1">>, RBrace>>),
     TextFile(<<LBracket, LBrace>>),
     TextFile(JsonDump(<<>>)),
     TextFile(JsonDump(<<NewEmployee(1, Al, 15, Eng)>>)),
     TextFile(JsonDump(<<NewEmployee(2, Bob, 100, General),
                         NewEmployee(1, Al, 15, Eng)>>)),
     TextFile(JsonDump(<<NewEmployee(3, Bob, 15, General)>>))}

\* Files holding records that lack keys.
MalformedFiles ==
    {TextFile(JsonDump(<<[name |-> Al]>>)),
     TextFile(JsonDump(<<[id |-> 1, age |-> 15]>>)),
     TextFile(JsonDump(<<EmptyDict, NewEmployee(1, Al, 15, Eng)>>)),
     TextFile(JsonDump(<<[id |-> 2, name |-> Bob, age |-> 100]>>))}

(* -------------------------------- actions ----------------------------- *)

Crash(m) ==
    /\ pc' = "crashed"
    /\ exitCode' = 1
    /\ out' = Msg(m)

\* main, line 107: employees = load_data()
Startup ==
    /\ pc = "start"
    /\ LET r == load_data(file)
       IN  IF r.raised
           THEN Crash("UnicodeDecodeError") /\ UNCHANGED employees
           ELSE /\ employees' = r.val
                /\ pc' = "menu"
                /\ UNCHANGED <<out, exitCode>>
    /\ UNCHANGED <<file, name, age, sid_int, assigned>>

\* Choice "1": add_employee is entered and prompts for the name.
MenuAdd ==
    /\ pc = "menu"
    /\ \E line \in ChoiceInputs : Strip(line) = <<"1">>
    /\ Len(employees) < MaxEmp
    /\ NextId(employees) <= MaxId
    /\ pc' = "add_name"
    /\ out' = Msg("Enter name: ")
    /\ UNCHANGED <<employees, file, name, age, sid_int, exitCode, assigned>>

\* A variant of AddName without the return after "Invalid name".
AddNameNoReturn ==
    /\ pc = "add_name"
    /\ \E line \in NameInputs :
          /\ name' = Strip(line)
          /\ pc' = "add_age"
          /\ out' = IF validate_name(name') THEN Msg("Enter age (15-100): ")
                    ELSE Msg("Invalid name. Try again.")
    /\ UNCHANGED <<employees, file, age, sid_int, exitCode, assigned>>

\* add_employee, lines 41-44
AddName ==
    /\ pc = "add_name"
    /\ \E line \in NameInputs :
          LET n == Strip(line)
          IN  IF ~validate_name(n)
              THEN /\ out' = Msg("Invalid name. Try again.")
                   /\ pc' = "menu"
                   /\ UNCHANGED name
              ELSE /\ name' = n
                   /\ pc' = "add_age"
                   /\ out' = Msg("Enter age (15-100): ")
    /\ UNCHANGED <<employees, file, age, sid_int, exitCode, assigned>>

\* add_employee, lines 45-49
AddAge ==
    /\ pc = "add_age"
    /\ \E line \in AgeInputs :
          LET a == validate_age(Strip(line))
          IN  IF ~a.ok
              THEN /\ out' = Msg("Invalid age. Must be number between 15 and 100.")
                   /\ pc' = "menu"
                   /\ name' = <<>>
                   /\ UNCHANGED age
              ELSE /\ age' = a.val
                   /\ pc' = "add_dept"
                   /\ out' = Msg("Enter department: ")
                   /\ UNCHANGED name
    /\ UNCHANGED <<employees, file, sid_int, exitCode, assigned>>

\* add_employee, lines 50-58
AddDept ==
    /\ pc = "add_dept"
    /\ \E line \in DeptInputs :
          LET d == Strip(line)
              dept == IF d = <<>> THEN General ELSE d
              next_id == NextId(employees)
              emp == NewEmployee(next_id, name, age, dept)
          IN  /\ employees' = AppendEmployee(employees, emp)
              /\ \E s \in save_data(employees', file) :
                    /\ file' = s.file
                    /\ IF s.ok
                       THEN /\ out' = [msg |-> "Added employee", num |-> next_id]
                            /\ assigned' = assigned \cup {next_id}
                            /\ pc' = "menu"
                            /\ UNCHANGED exitCode
                       ELSE Crash("OSError") /\ UNCHANGED assigned
    /\ name' = <<>>
    /\ age' = 0
    /\ UNCHANGED sid_int

\* Choice "2": view_all
MenuView ==
    /\ pc = "menu"
    /\ \E line \in ChoiceInputs : Strip(line) = <<"2">>
    /\ out' = IF employees = <<>> THEN Msg("No employees.")
              ELSE [msg |-> "ID Name Age Department", num |-> Len(ViewRows(employees))]
    /\ UNCHANGED <<pc, employees, file, name, age, sid_int, exitCode, assigned>>

\* Choice "3": prompt_search is entered and prompts for the query.
MenuSearch ==
    /\ pc = "menu"
    /\ \E line \in ChoiceInputs : Strip(line) = <<"3">>
    /\ pc' = "search"
    /\ out' = Msg("Enter name to search (partial allowed): ")
    /\ UNCHANGED <<employees, file, name, age, sid_int, exitCode, assigned>>

\* prompt_search, lines 84-91
Search ==
    /\ pc = "search"
    /\ \E line \in QueryInputs :
          LET results == find_by_name(employees, Strip(line))
          IN  IF results = <<>>
              THEN /\ out' = Msg("No matches.")
                   /\ pc' = "menu"
                   /\ UNCHANGED exitCode
              ELSE IF \A i \in 1..Len(results) : PrintsResult(results[i])
              THEN /\ out' = [msg |-> "Found", num |-> Len(results)]
                   /\ pc' = "menu"
                   /\ UNCHANGED exitCode
              ELSE Crash("KeyError")
    /\ UNCHANGED <<employees, file, name, age, sid_int, assigned>>

\* Choice "4": prompt_delete is entered and prompts for the id.
MenuDelete ==
    /\ pc = "menu"
    /\ \E line \in ChoiceInputs : Strip(line) = <<"4">>
    /\ pc' = "delete"
    /\ out' = Msg("Enter id to delete: ")
    /\ UNCHANGED <<employees, file, name, age, sid_int, exitCode, assigned>>

\* prompt_delete, lines 94-99: the id is read and parsed.
DeleteRead ==
    /\ pc = "delete"
    /\ \E line \in IdInputs :
          LET sid == PyInt(Strip(line))
          IN  IF ~sid.ok
              THEN /\ out' = Msg("Invalid id.")
                   /\ pc' = "menu"
                   /\ UNCHANGED sid_int
              ELSE /\ sid_int' = sid.val
                   /\ pc' = "deleting"
                   /\ UNCHANGED out
    /\ UNCHANGED <<employees, file, name, age, exitCode, assigned>>

\* prompt_delete, lines 100-104, with delete_by_id and its save
DeleteById ==
    /\ pc = "deleting"
    /\ LET r == delete_by_id(employees, sid_int)
       IN  IF ~r.found
           THEN /\ out' = Msg("No employee with that id.")
                /\ pc' = "menu"
                /\ UNCHANGED <<employees, file, exitCode>>
           ELSE /\ employees' = r.emps
                /\ \E s \in save_data(employees', file) :
                      /\ file' = s.file
                      /\ IF s.ok
                         THEN /\ out' = [msg |-> "Deleted employee", num |-> sid_int]
                              /\ pc' = "menu"
                              /\ UNCHANGED exitCode
                         ELSE Crash("OSError")
    /\ sid_int' = 0
    /\ UNCHANGED <<name, age, assigned>>

\* Choice "5"
MenuExit ==
    /\ pc = "menu"
    /\ \E line \in ChoiceInputs : Strip(line) = <<"5">>
    /\ pc' = "exited"
    /\ exitCode' = 0
    /\ out' = Msg("Exiting. Goodbye.")
    /\ UNCHANGED <<employees, file, name, age, sid_int, assigned>>

\* Any other choice
MenuInvalid ==
    /\ pc = "menu"
    /\ \E line \in ChoiceInputs :
          Strip(line) \notin {<<"1">>, <<"2">>, <<"3">>, <<"4">>, <<"5">>}
    /\ out' = Msg("Invalid choice. Enter 1-5.")
    /\ UNCHANGED <<pc, employees, file, name, age, sid_int, exitCode, assigned>>

Prompts == {"menu", "add_name", "add_age", "add_dept", "search", "delete"}

\* input() at end of input raises EOFError, which nothing catches.
EndOfInput ==
    /\ pc \in Prompts
    /\ Crash("EOFError")
    /\ UNCHANGED <<employees, file, name, age, sid_int, assigned>>

Next ==
    \/ Startup
    \/ MenuAdd
    \/ AddName
    \/ AddAge
    \/ AddDept
    \/ MenuView
    \/ MenuSearch
    \/ Search
    \/ MenuDelete
    \/ DeleteRead
    \/ DeleteById
    \/ MenuExit
    \/ MenuInvalid
    \/ EndOfInput

InitWith(files) ==
    /\ pc = "start"
    /\ employees = <<>>
    /\ file \in files
    /\ name = <<>>
    /\ age = 0
    /\ sid_int = 0
    /\ out = Msg("")
    /\ exitCode = -1
    /\ assigned = {}

Init == InitWith(WellFormedFiles)

Spec == Init /\ [][Next]_vars

InitLoose == InitWith(WellFormedFiles \cup MalformedFiles)

SpecLoose == InitLoose /\ [][Next]_vars

(* -------------------------------- claims ------------------------------ *)

\* A step in which add_employee appends its record and saves it.
AddStep == pc = "add_dept" /\ out'.msg = "Added employee"

\* A step in which delete_by_id runs (with its save succeeding, if it saves).
DeleteStep == pc = "deleting" /\ pc' = "menu"

HasId(emps, id) == \E i \in 1..Len(emps) : emps[i].id = id

\* C1: ids are never reused: the id an Add assigns differs from every id an
\* earlier Add of the run assigned, also when that record has been deleted.
C1_IdsNeverReused == [][AddStep => out'.num \notin assigned]_vars

\* C2: starting from a collection with pairwise distinct ids, no two records
\* of the collection ever have the same id.
C2_IdsUnique ==
    \A i, j \in 1..Len(employees) :
        i # j => employees[i].id # employees[j].id

\* An Add has happened after the record with id 1 was deleted.
C2_Witness ==
    /\ Len(employees) = 2
    /\ out.msg = "Added employee"
    /\ 1 \in assigned
    /\ ~HasId(employees, 1)

\* C3: a successful Add gives the new record one more than the largest id
\* present before it (1 if there was none), which is larger than every id
\* present, reports that id, and appends the record, leaving the records that
\* were there as they were and where they were.
C3_AddAssignsNext ==
    [][AddStep =>
          /\ Len(employees') = Len(employees) + 1
          /\ \A i \in 1..Len(employees) : employees'[i] = employees[i]
          /\ LET new == employees'[Len(employees')]
             IN  /\ new.id = out'.num
                 /\ employees = <<>> => new.id = 1
                 /\ employees # <<>> =>
                       /\ \E i \in 1..Len(employees) : new.id = employees[i].id + 1
                       /\ \A i \in 1..Len(employees) : employees[i].id < new.id]_vars

\* An Add onto a record whose id is not 1 has assigned id 3.
C3_Witness ==
    /\ out = [msg |-> "Added employee", num |-> 3]
    /\ Len(employees) = 2
    /\ employees[1].id = 2
    /\ employees[2].id = 3

\* C4: Delete of an id that is present removes the record with that id and
\* no other, keeps the others in their order, and reports success; Delete of
\* an id that is not present leaves the collection and the file untouched
\* and reports failure.
C4_DeleteExactlyOne ==
    [][DeleteStep =>
          IF HasId(employees, sid_int)
          THEN /\ out' = [msg |-> "Deleted employee", num |-> sid_int]
               /\ ~HasId(employees', sid_int)
               /\ \E i \in 1..Len(employees) :
                     /\ employees[i].id = sid_int
                     /\ Len(employees') = Len(employees) - 1
                     /\ \A j \in 1..(i - 1) : employees'[j] = employees[j]
                     /\ \A j \in i..Len(employees') : employees'[j] = employees[j + 1]
          ELSE /\ out'.msg = "No employee with that id."
               /\ employees' = employees
               /\ file' = file]_vars

\* The first of two records has been deleted and the second is left.
C4_Witness ==
    /\ out = [msg |-> "Deleted employee", num |-> 1]
    /\ Len(employees) = 1
    /\ employees[1].id = 2

\* C5: after a successful Add or Delete whose write succeeded, loading the
\* file yields the collection in memory; View and Search leave the file as
\* it is.
C5_FileMirrorsMemory ==
    [][/\ (AddStep \/ (DeleteStep /\ out'.msg = "Deleted employee")) =>
             /\ ~load_data(file').raised
             /\ load_data(file').val = employees'
       /\ (pc = "search" \/ (pc = "menu" /\ pc' = "menu")) => file' = file]_vars

\* Two records, of which one holds a three-digit age, have been saved.
C5_Witness ==
    /\ out.msg = "Added employee"
    /\ Len(employees) = 2
    /\ \E i \in 1..2 : employees[i].age = 100
    /\ file = TextFile(JsonDump(employees))

\* C6: load_data never raises: whatever the file holds, the program gets a
\* list from it and reaches its menu.
C6_LoadNeverRaises == [][pc = "start" => pc' = "menu"]_vars

RecoverableMsgs ==
    {"Invalid name. Try again.",
     "Invalid age. Must be number between 15 and 100.",
     "Invalid id.",
     "No employee with that id.",
     "Invalid choice. Enter 1-5."}

\* C7: a step that reports a recoverable input error changes neither the
\* collection nor the file, and leaves the program running at its menu.
C7_InputErrorsChangeNothing ==
    [][out'.msg \in RecoverableMsgs =>
          /\ employees' = employees
          /\ file' = file
          /\ pc' = "menu"
          /\ exitCode' = -1]_vars

\* An invalid name has been refused while the collection holds a record.
C7_Witness ==
    /\ out.msg = "Invalid name. Try again."
    /\ employees # <<>>
    /\ pc = "menu"

\* C8: the program ends with exit code 0 when Exit is chosen and when the
\* input ends.
C8_ExitCodeZero ==
    (pc \in {"exited", "crashed"} /\ out.msg \in {"Exiting. Goodbye.", "EOFError"})
        => exitCode = 0

\* C9: with records that lack keys in the collection, no menu action crashes:
\* the program ends abnormally only for want of input or a failing write or
\* read of the file.
C9_MalformedTolerated ==
    pc = "crashed" => out.msg \in {"EOFError", "OSError", "UnicodeDecodeError"}

\* A record of the data model.
WellFormed(e) ==
    /\ DOMAIN e = {"id", "name", "age", "department"}
    /\ e.id >= 1
    /\ e.name # <<>> /\ e.name[1] # " " /\ e.name[Len(e.name)] # " "
    /\ e.age >= 15 /\ e.age <= 100
    /\ e.department # <<>>
    /\ e.department[1] # " " /\ e.department[Len(e.department)] # " "

====
